---- MODULE Spec2Model ----
(***************************************************************************)
(* Model of modify_rust_for_variants.py.                                   *)
(*                                                                         *)
(* The script patches a Rust source file by literal str.replace calls      *)
(* (modify_cluster_topics_v1 / modify_cluster_topics_v2).  The text it     *)
(* installs contains the variant resolver (load_variant_settings and the   *)
(* rewritten prologue of main), which is modelled as a second state        *)
(* machine.                                                                *)
(*                                                                         *)
(* Text is a sequence of tokens.  A token is a maximal piece of text in    *)
(* which no anchor of a rule begins or ends, so every anchor and every     *)
(* replacement of the script is a sequence of whole tokens, and the        *)
(* overlaps between them (the shared "async fn main(" of rules 3 and 4,    *)
(* the "let start_time" line inside the old prologue) are kept.            *)
(***************************************************************************)
EXTENDS Integers, Sequences, FiniteSets, TLC

VARIABLES
    flavor,      \* which function runs: "v1" or "v2"
    original,    \* the target file's text when the run started (history)
    stored,      \* the target file's text on disk
    content,     \* the local variable `content`
    pc,          \* position of the patch run
    err,         \* where the patch run raised, "none" if it did not
    reads,       \* number of f.read() calls made
    writes,      \* number of f.write() calls made
    todo,        \* rules not yet applied (order-independence runs only)
    argsVariant, \* args.variant: None or Some(requested name)
    settingsFile,\* settings.json: status "missing", "malformed" or "ok" and,
                 \* when ok, the Settings it parses to
    catalog,     \* variants.json: status "missing", "unreadable", "malformed"
                 \* or "ok" and, when ok, the map from names to VariantConfig
    rpc,         \* position of the resolver (the patched main)
    settings,    \* the local `settings`: None until loaded
    variant_settings, \* the local `variant_settings`: None until loaded
    effective,   \* the resolved tuple, None until computed
    rerr,        \* the error main returned, None if none
    catalogOps   \* what was done with variants.json, in order

vars == <<flavor, original, stored, content, pc, err, reads, writes, todo,
          argsVariant, settingsFile, catalog, rpc, settings, variant_settings,
          effective, rerr, catalogOps>>

patchVars == <<flavor, original, stored, content, pc, err, reads, writes>>
resolverVars == <<argsVariant, settingsFile, catalog, rpc, settings,
                  variant_settings, effective, rerr, catalogOps>>

\* Option<T>: None is the empty sequence, Some(v) the sequence of v alone
None == <<>>
Some(v) == <<v>>

(***************************************************************************)
(* Tokens of the target text.                                              *)
(***************************************************************************)
IND  == "use indicatif::{ProgressBar, ProgressStyle};"
CLAP == "use clap::Parser;"
NL   == "\n"
INDENT == "    "
DER  == "#[derive(Debug, Deserialize)]"
SET  == "struct Settings {"
TOK  == "#[tokio::main]"
MAIN == "async fn main("
SIG  == ") -> Result<(), Box<dyn std::error::Error>> {"
ST   == "let start_time = Instant::now();"
PRN  == "println!(banner);"
OLDB == "old settings prologue"
CMT  == "// Parse command-line arguments"
NEWB == "// Load base settings ... // Override with variant settings if specified"
VSB1 == "Args, VariantsConfig, VariantConfig, VariantSettings (v1 fields)"
VSB2 == "Args, VariantsConfig, VariantConfig, VariantSettings (v2 fields)"
HF   == "fn load_variant_settings"
ARGS == "let args = Args::parse();"
X    == "other text"

(***************************************************************************)
(* str.replace(old, new) of Python for a non-empty old: every              *)
(* non-overlapping occurrence, scanning from the left, is replaced.        *)
(***************************************************************************)
RECURSIVE StrReplace(_, _, _)
StrReplace(s, old, new) ==
    IF Len(s) < Len(old) THEN s
    ELSE IF SubSeq(s, 1, Len(old)) = old
         THEN new \o StrReplace(SubSeq(s, Len(old) + 1, Len(s)), old, new)
         ELSE <<Head(s)>> \o StrReplace(Tail(s), old, new)

\* `old in s` of Python
RECURSIVE StrIn(_, _)
StrIn(old, s) ==
    IF Len(s) < Len(old) THEN FALSE
    ELSE SubSeq(s, 1, Len(old)) = old \/ StrIn(old, Tail(s))

\* str.replace(old, new, 1): the first occurrence only
RECURSIVE StrReplaceFirst(_, _, _)
StrReplaceFirst(s, old, new) ==
    IF Len(s) < Len(old) THEN s
    ELSE IF SubSeq(s, 1, Len(old)) = old
         THEN new \o SubSeq(s, Len(old) + 1, Len(s))
         ELSE <<Head(s)>> \o StrReplaceFirst(Tail(s), old, new)

\* positions at which old occurs in s
Occurrences(old, s) ==
    {i \in 1..(Len(s) - Len(old) + 1) : SubSeq(s, i, i + Len(old) - 1) = old}

(***************************************************************************)
(* The rules: anchor (first argument of replace) and replacement (second). *)
(***************************************************************************)
clap_anchor == <<IND>>

\* mutant: the import is put before the anchor line instead of after it
clap_new_before == <<CLAP, NL, IND>>

clap_new == <<IND, NL, CLAP>>

variant_structs(f) == <<NL, IF f = "v1" THEN VSB1 ELSE VSB2, NL>>
settings_anchor == <<NL, DER, NL, SET>>
settings_new(f) == variant_structs(f) \o settings_anchor

helper_function == <<NL, HF, NL, NL>>
main_anchor == <<TOK, NL, MAIN>>
main_new == helper_function \o main_anchor

\* the text old_main_start and new_main_start have in common
main_start_common == <<MAIN, SIG, NL, INDENT, ST, NL, INDENT, PRN, NL, INDENT>>
old_main_start == main_start_common \o <<OLDB>>

\* mutant: the rewritten prologue no longer opens with "async fn main("
new_main_start_renamed ==
    <<X>> \o Tail(main_start_common)
        \o <<NL, INDENT, CMT, NL, INDENT, ARGS, NL, INDENT, NL, INDENT, NEWB>>

new_main_start ==
    main_start_common \o <<NL, INDENT, CMT, NL, INDENT, ARGS, NL, INDENT, NL, INDENT, NEWB>>

start_time_anchor == <<ST>>
start_time_new == <<ARGS, NL, INDENT, ST>>

Rules == {"rule1", "rule2", "rule3", "rule4"}

Anchor(f, r) ==
    CASE r = "rule1" -> clap_anchor
      [] r = "rule2" -> settings_anchor
      [] r = "rule3" -> main_anchor
      [] r = "rule4" -> IF f = "v1" THEN old_main_start ELSE start_time_anchor

Replacement(f, r) ==
    CASE r = "rule1" -> clap_new
      [] r = "rule2" -> settings_new(f)
      [] r = "rule3" -> main_new
      [] r = "rule4" -> IF f = "v1" THEN new_main_start ELSE start_time_new

\* mutant: a rule whose anchor is absent appends its text at the end
ApplyRuleAppending(f, r, s) ==
    IF StrIn(Anchor(f, r), s)
    THEN StrReplace(s, Anchor(f, r), Replacement(f, r))
    ELSE s \o Replacement(f, r)

\* one content = content.replace(...) statement; the v2 start_time rule is
\* guarded by `if ... in content`
ApplyRule(f, r, s) ==
    IF f = "v2" /\ r = "rule4" /\ ~StrIn(Anchor(f, r), s) THEN s
    ELSE StrReplace(s, Anchor(f, r), Replacement(f, r))

\* the text a whole run computes from the text it read
ModifyText(f, s) ==
    ApplyRule(f, "rule4", ApplyRule(f, "rule3", ApplyRule(f, "rule2", ApplyRule(f, "rule1", s))))

(***************************************************************************)
(* Input documents: up to MaxChunks pieces, each an anchor, a part of an   *)
(* anchor or other text.                                                   *)
(***************************************************************************)
MaxChunks == 3

Chunks ==
    { <<X>>, <<NL>>, <<CLAP>>, clap_anchor, settings_anchor, <<TOK, NL>>,
      <<MAIN>>, old_main_start, <<TOK, NL>> \o old_main_start, <<ST>> }

RECURSIVE DocsOf(_)
DocsOf(n) ==
    IF n = 0 THEN {<<>>}
    ELSE LET D == DocsOf(n - 1) IN D \cup {d \o c : d \in D, c \in Chunks}

Docs == DocsOf(MaxChunks)

(***************************************************************************)
(* The patch run.                                                          *)
(***************************************************************************)
ResolverIdle ==
    /\ argsVariant = None
    /\ settingsFile = [status |-> "missing", value |-> None]
    /\ catalog = [status |-> "missing", value |-> None]
    /\ rpc = "idle" /\ settings = None /\ variant_settings = None
    /\ effective = None /\ rerr = None
    /\ catalogOps = <<>>

PatchIdle ==
    /\ flavor = "v1" /\ original = <<>> /\ stored = <<>> /\ content = <<>>
    /\ pc = "idle" /\ err = "none" /\ reads = 0 /\ writes = 0

Init ==
    /\ flavor \in {"v1", "v2"}
    /\ original \in Docs
    /\ stored = original
    /\ content = <<>>
    /\ pc = "read"
    /\ err = "none"
    /\ reads = 0
    /\ writes = 0
    /\ todo = {}
    /\ ResolverIdle

\* the statement after the last rule: v1 writes then prints, v2 prints then writes
NextPc(f, p) ==
    CASE p = "read"  -> "rule1"
      [] p = "rule1" -> "rule2"
      [] p = "rule2" -> "rule3"
      [] p = "rule3" -> "rule4"
      [] p = "rule4" -> IF f = "v1" THEN "open" ELSE "print"
      [] p = "open"  -> "write"
      [] p = "write" -> IF f = "v1" THEN "print" ELSE "done"
      [] p = "print" -> IF f = "v1" THEN "done" ELSE "open"

Raise(where) ==
    /\ pc' = "failed"
    /\ err' = where

\* with open(filepath, 'r') as f: content = f.read()
Read ==
    /\ pc = "read"
    /\ \/ /\ content' = stored
          /\ reads' = reads + 1
          /\ pc' = NextPc(flavor, pc)
          /\ UNCHANGED err
       \/ /\ Raise("read")
          /\ UNCHANGED <<content, reads>>
    /\ UNCHANGED <<flavor, original, stored, writes, todo, resolverVars>>

Rule(r) ==
    /\ pc = r
    /\ content' = ApplyRule(flavor, r, content)
    /\ pc' = NextPc(flavor, pc)
    /\ UNCHANGED <<flavor, original, stored, err, reads, writes, todo, resolverVars>>

Rule1 == Rule("rule1")

\* mutant: the result of the second rule is saved at once
Rule2Saving ==
    /\ pc = "rule2"
    /\ content' = ApplyRule(flavor, "rule2", content)
    /\ stored' = content'
    /\ pc' = NextPc(flavor, pc)
    /\ UNCHANGED <<flavor, original, err, reads, writes, todo, resolverVars>>

Rule2 == Rule("rule2")
Rule3 == Rule("rule3")
Rule4 == Rule("rule4")

\* open(filepath, 'w'): the file is truncated when it is opened
OpenWrite ==
    /\ pc = "open"
    /\ \/ /\ stored' = <<>>
          /\ pc' = NextPc(flavor, pc)
          /\ UNCHANGED err
       \/ /\ Raise("open")
          /\ UNCHANGED stored
    /\ UNCHANGED <<flavor, original, content, reads, writes, todo, resolverVars>>

\* f.write(content); a failing write leaves the truncated file
Write ==
    /\ pc = "write"
    /\ \/ /\ stored' = content
          /\ writes' = writes + 1
          /\ pc' = NextPc(flavor, pc)
          /\ UNCHANGED err
       \/ /\ Raise("write")
          /\ UNCHANGED <<stored, writes>>
    /\ UNCHANGED <<flavor, original, content, reads, todo, resolverVars>>

\* print(f"... Modified {filepath}"): may raise (closed or non-UTF-8 stdout)
PrintModified ==
    /\ pc = "print"
    /\ \/ /\ pc' = NextPc(flavor, pc)
          /\ UNCHANGED err
       \/ Raise("print")
    /\ UNCHANGED <<flavor, original, stored, content, reads, writes, todo, resolverVars>>

Next ==
    \/ Read
    \/ Rule1
    \/ Rule2
    \/ Rule3
    \/ Rule4
    \/ OpenWrite
    \/ Write
    \/ PrintModified

Spec == Init /\ [][Next]_vars

(***************************************************************************)
(* The four v1 rules applied in an arbitrary order.                        *)
(***************************************************************************)
InitOrder ==
    /\ flavor = "v1"
    /\ original \in Docs
    /\ stored = original
    /\ content = original
    /\ pc = "order"
    /\ err = "none"
    /\ reads = 0
    /\ writes = 0
    /\ todo = Rules
    /\ ResolverIdle

ApplyInAnyOrder ==
    /\ pc = "order"
    /\ \E r \in todo :
          /\ content' = ApplyRule(flavor, r, content)
          /\ todo' = todo \ {r}
    /\ UNCHANGED <<flavor, original, stored, pc, err, reads, writes, resolverVars>>

NextOrder == ApplyInAnyOrder

SpecOrder == InitOrder /\ [][NextOrder]_vars

(***************************************************************************)
(* The resolver the v1 patch installs: new_main_start and                  *)
(* load_variant_settings.                                                  *)
(***************************************************************************)
Fields == {"clusters", "outlierThreshold", "linkageMethod",
           "useRelevanceWeighting", "useLLMNaming"}

\* Option::or, Option::unwrap_or
Or(a, b) == IF a # None THEN a ELSE b
UnwrapOr(a, d) == IF a # None THEN a[1] ELSE d

\* the literals of unwrap_or(...)
DefaultClusters == 256
DefaultOutlierThreshold == "0.7"
DefaultLinkageMethod == "weighted"
DefaultUseRelevanceWeighting == TRUE
DefaultUseLLMNaming == TRUE

\* settings.topic_clustering.as_ref().and_then(|s| s.<field>)
BaseField(st, f) ==
    IF st.topic_clustering = None THEN None ELSE st.topic_clustering[1][f]

\* mutant: the variant replaces the base settings wholesale
ResolveVariantWholesale(vs, st) ==
    [clusters              |-> UnwrapOr(vs.clusters, DefaultClusters),
     outlierThreshold      |-> UnwrapOr(vs.outlierThreshold, DefaultOutlierThreshold),
     linkageMethod         |-> UnwrapOr(vs.linkageMethod, DefaultLinkageMethod),
     useRelevanceWeighting |-> UnwrapOr(vs.useRelevanceWeighting, DefaultUseRelevanceWeighting),
     useLLMNaming          |-> UnwrapOr(vs.useLLMNaming, DefaultUseLLMNaming)]

\* the tuple of the `if let Some(variant_name)` branch
ResolveWithVariant(vs, st) ==
    [clusters              |-> UnwrapOr(Or(vs.clusters, BaseField(st, "clusters")),
                                        DefaultClusters),
     outlierThreshold      |-> UnwrapOr(Or(vs.outlierThreshold, BaseField(st, "outlierThreshold")),
                                        DefaultOutlierThreshold),
     linkageMethod         |-> UnwrapOr(Or(vs.linkageMethod, BaseField(st, "linkageMethod")),
                                        DefaultLinkageMethod),
     useRelevanceWeighting |-> UnwrapOr(Or(vs.useRelevanceWeighting,
                                           BaseField(st, "useRelevanceWeighting")),
                                        DefaultUseRelevanceWeighting),
     useLLMNaming          |-> UnwrapOr(Or(vs.useLLMNaming, BaseField(st, "useLLMNaming")),
                                        DefaultUseLLMNaming)]

\* the tuple of the else branch
ResolveBaseOnly(st) ==
    [clusters              |-> UnwrapOr(BaseField(st, "clusters"), DefaultClusters),
     outlierThreshold      |-> UnwrapOr(BaseField(st, "outlierThreshold"),
                                        DefaultOutlierThreshold),
     linkageMethod         |-> UnwrapOr(BaseField(st, "linkageMethod"), DefaultLinkageMethod),
     useRelevanceWeighting |-> UnwrapOr(BaseField(st, "useRelevanceWeighting"),
                                        DefaultUseRelevanceWeighting),
     useLLMNaming          |-> UnwrapOr(BaseField(st, "useLLMNaming"), DefaultUseLLMNaming)]

\* inputs: the values a settings.json and a variant of variants.json may set
BaseOverrides ==
    [clusters              : {None, Some(100)},
     outlierThreshold      : {None, Some("0.5")},
     linkageMethod         : {None, Some("average")},
     useRelevanceWeighting : {None, Some(TRUE), Some(FALSE)},
     useLLMNaming          : {None, Some(TRUE), Some(FALSE)}]

VariantOverrides ==
    [clusters              : {None, Some(64)},
     outlierThreshold      : {None, Some("0.9")},
     linkageMethod         : {None, Some("ward")},
     useRelevanceWeighting : {None, Some(TRUE), Some(FALSE)},
     useLLMNaming          : {None, Some(TRUE), Some(FALSE)}]

SettingsValues ==
    {[topic_clustering |-> None]} \cup {[topic_clustering |-> Some(b)] : b \in BaseOverrides}

SettingsFiles ==
    {[status |-> "missing", value |-> None], [status |-> "malformed", value |-> None]}
        \cup {[status |-> "ok", value |-> Some(v)] : v \in SettingsValues}

\* a catalog that parses: no variant, or the variant "fast"
Catalogs ==
    {[status |-> x, value |-> None] : x \in {"missing", "unreadable", "malformed"}}
        \cup {[status |-> "ok", value |-> Some(<<>>)]}
        \cup {[status |-> "ok",
               value |-> Some([n \in {"fast"} |->
                                  [version |-> "v1", name |-> "Fast", settings |-> o]])]
                 : o \in VariantOverrides}

\* the values of --variant
Requests == {None, Some("fast"), Some("nonexistent")}

InitResolve ==
    /\ PatchIdle
    /\ todo = {}
    /\ argsVariant = None
    /\ settingsFile \in SettingsFiles
    /\ catalog \in Catalogs
    /\ rpc = "parse_args"
    /\ settings = None
    /\ variant_settings = None
    /\ effective = None
    /\ rerr = None
    /\ catalogOps = <<>>

Err(kind, message) == Some([kind |-> kind, message |-> message])

\* let args = Args::parse();
ParseArgs ==
    /\ rpc = "parse_args"
    /\ argsVariant' \in Requests
    /\ rpc' = "settings_exists"
    /\ UNCHANGED <<patchVars, todo, settingsFile, catalog, settings, variant_settings,
                   effective, rerr, catalogOps>>

\* if !settings_path.exists() { ...; std::process::exit(1); }
SettingsExists ==
    /\ rpc = "settings_exists"
    /\ rpc' = IF settingsFile.status = "missing" THEN "exited" ELSE "settings_load"
    /\ UNCHANGED <<patchVars, todo, argsVariant, settingsFile, catalog, settings,
                   variant_settings, effective, rerr, catalogOps>>

\* let settings: Settings = serde_json::from_str(&settings_content)?;
SettingsLoad ==
    /\ rpc = "settings_load"
    /\ IF settingsFile.status = "ok"
       THEN /\ settings' = settingsFile.value
            /\ rpc' = "branch"
            /\ UNCHANGED rerr
       ELSE /\ rerr' = Err("SettingsMalformed", <<"serde_json error">>)
            /\ rpc' = "failed"
            /\ UNCHANGED settings
    /\ UNCHANGED <<patchVars, todo, argsVariant, settingsFile, catalog, variant_settings,
                   effective, catalogOps>>

\* mutant: the catalog is looked for before the variant option is tested
BranchEagerExists ==
    /\ rpc = "branch"
    /\ catalogOps' = Append(catalogOps, "exists")
    /\ rpc' = IF argsVariant # None THEN "load_exists" ELSE "base_only"
    /\ UNCHANGED <<patchVars, todo, argsVariant, settingsFile, catalog, settings,
                   variant_settings, effective, rerr>>

\* if let Some(variant_name) = &args.variant { ... } else { ... }
Branch ==
    /\ rpc = "branch"
    /\ rpc' = IF argsVariant # None THEN "load_exists" ELSE "base_only"
    /\ UNCHANGED <<patchVars, todo, argsVariant, settingsFile, catalog, settings,
                   variant_settings, effective, rerr, catalogOps>>

\* mutant: a missing catalog counts as a catalog without overrides
LoadExistsLenient ==
    /\ rpc = "load_exists"
    /\ catalogOps' = Append(catalogOps, "exists")
    /\ IF catalog.status = "missing"
       THEN /\ variant_settings' = Some([f \in Fields |-> None])
            /\ rpc' = "override"
       ELSE /\ rpc' = "load_read"
            /\ UNCHANGED variant_settings
    /\ UNCHANGED <<patchVars, todo, argsVariant, settingsFile, catalog, settings,
                   effective, rerr>>

\* if !variants_path.exists() { return Err("variants.json not found".into()); }
LoadExists ==
    /\ rpc = "load_exists"
    /\ catalogOps' = Append(catalogOps, "exists")
    /\ IF catalog.status = "missing"
       THEN /\ rerr' = Err("CatalogMissing", <<"variants.json not found">>)
            /\ rpc' = "failed"
       ELSE /\ rpc' = "load_read"
            /\ UNCHANGED rerr
    /\ UNCHANGED <<patchVars, todo, argsVariant, settingsFile, catalog, settings,
                   variant_settings, effective>>

\* let variants_content = fs::read_to_string(&variants_path)?;
LoadRead ==
    /\ rpc = "load_read"
    /\ catalogOps' = Append(catalogOps, "read")
    /\ IF catalog.status = "unreadable"
       THEN /\ rerr' = Err("Io", <<"io error">>)
            /\ rpc' = "failed"
       ELSE /\ rpc' = "load_parse"
            /\ UNCHANGED rerr
    /\ UNCHANGED <<patchVars, todo, argsVariant, settingsFile, catalog, settings,
                   variant_settings, effective>>

\* let variants_config: VariantsConfig = serde_json::from_str(&variants_content)?;
LoadParse ==
    /\ rpc = "load_parse"
    /\ catalogOps' = Append(catalogOps, "parse")
    /\ IF catalog.status = "malformed"
       THEN /\ rerr' = Err("CatalogMalformed", <<"serde_json error">>)
            /\ rpc' = "failed"
       ELSE /\ rpc' = "load_get"
            /\ UNCHANGED rerr
    /\ UNCHANGED <<patchVars, todo, argsVariant, settingsFile, catalog, settings,
                   variant_settings, effective>>

\* mutant: an unknown variant counts as a variant without overrides
LoadGetFallback ==
    /\ rpc = "load_get"
    /\ catalogOps' = Append(catalogOps, "get")
    /\ LET variants == catalog.value[1]
           variant_name == argsVariant[1]
       IN  /\ variant_settings' =
                  IF variant_name \in DOMAIN variants
                  THEN Some(variants[variant_name].settings)
                  ELSE Some([f \in Fields |-> None])
           /\ rpc' = "override"
    /\ UNCHANGED <<patchVars, todo, argsVariant, settingsFile, catalog, settings,
                   effective, rerr>>

\* variants_config.variants.get(variant_name).ok_or_else(|| format!(...))?;
\* Ok(variant.settings.clone())
LoadGet ==
    /\ rpc = "load_get"
    /\ catalogOps' = Append(catalogOps, "get")
    /\ LET variants == catalog.value[1]
           variant_name == argsVariant[1]
       IN  IF variant_name \in DOMAIN variants
           THEN /\ variant_settings' = Some(variants[variant_name].settings)
                /\ rpc' = "override"
                /\ UNCHANGED rerr
           ELSE /\ rerr' = Err("VariantNotFound",
                               <<"Variant '", variant_name, "' not found in variants.json">>)
                /\ rpc' = "failed"
                /\ UNCHANGED variant_settings
    /\ UNCHANGED <<patchVars, todo, argsVariant, settingsFile, catalog, settings,
                   effective>>

\* the tuple built from variant_settings and settings
Override ==
    /\ rpc = "override"
    /\ effective' = Some(ResolveWithVariant(variant_settings[1], settings[1]))
    /\ rpc' = "done"
    /\ UNCHANGED <<patchVars, todo, argsVariant, settingsFile, catalog, settings,
                   variant_settings, rerr, catalogOps>>

\* the tuple built from settings alone
BaseOnly ==
    /\ rpc = "base_only"
    /\ effective' = Some(ResolveBaseOnly(settings[1]))
    /\ rpc' = "done"
    /\ UNCHANGED <<patchVars, todo, argsVariant, settingsFile, catalog, settings,
                   variant_settings, rerr, catalogOps>>

NextResolve ==
    \/ ParseArgs
    \/ SettingsExists
    \/ SettingsLoad
    \/ Branch
    \/ LoadExists
    \/ LoadRead
    \/ LoadParse
    \/ LoadGet
    \/ Override
    \/ BaseOnly

SpecResolve == InitResolve /\ [][NextResolve]_vars

(***************************************************************************)
(* Properties of the patch run.                                            *)
(***************************************************************************)
\* the text rule r of a run finds: the earlier rules applied to the text read
Prior(f, r, s) ==
    CASE r = "rule1" -> s
      [] r = "rule2" -> ApplyRule(f, "rule1", s)
      [] r = "rule3" -> ApplyRule(f, "rule2", ApplyRule(f, "rule1", s))
      [] r = "rule4" -> ApplyRule(f, "rule3", ApplyRule(f, "rule2", ApplyRule(f, "rule1", s)))

Count(t, s) == Cardinality({i \in 1..Len(s) : s[i] = t})

\* C1: every rule of v1 and v2 edits only the first occurrence of its anchor:
\* right after rule r the text is the text before it with the first
\* occurrence of the anchor replaced and everything else, later occurrences
\* included, unchanged.
C1_FirstOccurrenceOnly ==
    \A r \in Rules :
        (pc = NextPc(flavor, r) /\ err = "none") =>
            content = StrReplaceFirst(Prior(flavor, r, original),
                                      Anchor(flavor, r), Replacement(flavor, r))

\* C2: patching a document twice with modify_cluster_topics_v1 gives the same
\* text as patching it once: the text a finished v1 run stored is a fixed
\* point of the patch.
C2_PatchTwiceIsPatchOnce ==
    (flavor = "v1" /\ pc = "done") => ModifyText("v1", stored) = stored

\* a step taken by a rule whose anchor is absent changes nothing but pc
AbsentAnchorStep ==
    \A r \in Rules :
        (pc = r /\ ~StrIn(Anchor(flavor, r), content)) =>
            /\ content' = content
            /\ stored' = stored
            /\ err' = err
            /\ pc' = NextPc(flavor, r)

\* a finished run holds the text of every rule whose anchor was found
FoundRulesApplied ==
    pc = "done" =>
        /\ \A r \in Rules :
              StrIn(Anchor(flavor, r), Prior(flavor, r, original)) =>
                  StrIn(Replacement(flavor, r), stored)
        /\ (\A r \in Rules : ~StrIn(Anchor(flavor, r), original)) => stored = original

\* C7: a rule whose anchor does not occur in the current text leaves the text
\* unchanged, raises nothing and hands over to the next statement; the rules
\* whose anchors are found are still applied; a document holding none of the
\* anchors is written back as it was read.
C7_AbsentAnchorIsNoOp == [][AbsentAnchorStep]_vars /\ []FoundRulesApplied

C7_Witness ==
    /\ pc = "done"
    /\ ~StrIn(Anchor(flavor, "rule1"), original)
    /\ ~StrIn(Anchor(flavor, "rule2"), original)
    /\ StrIn(Anchor(flavor, "rule3"), original)
    /\ StrIn(Replacement(flavor, "rule3"), stored)

\* C8: the document is read once at the start and written at most once, only
\* after all four rules were applied in memory; the file never holds the
\* result of only some of the rules (it holds the original, the text of the
\* complete run, or nothing while it is being rewritten), and a run that
\* failed before its write step left the original.
C8_WriteOnceAfterAllRules ==
    /\ reads <= 1
    /\ writes <= 1
    /\ (pc # "read" /\ err # "read") => reads = 1
    /\ stored \in {original, <<>>, ModifyText(flavor, original)}
    /\ writes = 1 => stored = ModifyText(flavor, original)
    /\ stored # original =>
          /\ content = ModifyText(flavor, original)
          /\ pc \in {"write", "print", "done", "failed"}
          /\ err \in {"none", "write", "print"}
    /\ (pc = "failed" /\ (err \in {"read", "open"} \/ (err = "print" /\ flavor = "v2"))) =>
          (stored = original /\ writes = 0)

C8_Witness ==
    /\ pc = "done"
    /\ writes = 1
    /\ reads = 1
    /\ stored # original
    /\ ApplyRule(flavor, "rule1", original) \notin {original, stored}

\* C9: for a document with the indicatif import exactly once and no
\* clap::Parser, the clap-import rule gives the same document with
\* `use clap::Parser;` as the line right after the import line; the import
\* line and all other text are unchanged and clap::Parser occurs once.
C9_ClapImportAfterAnchor ==
    (pc = "rule2" /\ Count(IND, original) = 1 /\ Count(CLAP, original) = 0) =>
        /\ Count(CLAP, content) = 1
        /\ \E i \in 1..Len(original) :
              /\ original[i] = IND
              /\ content = SubSeq(original, 1, i) \o <<NL, CLAP>>
                               \o SubSeq(original, i + 1, Len(original))

C9_Witness ==
    /\ pc = "rule2"
    /\ Count(IND, original) = 1
    /\ Count(CLAP, original) = 0
    /\ Len(original) > 2
    /\ original[2] = IND

\* applying rule r leaves the occurrences of every other rule's anchor as
\* many as they were
NoInterferenceStep ==
    \A r \in Rules :
        (r \in todo /\ todo' = todo \ {r}) =>
            \A q \in Rules \ {r} :
                Cardinality(Occurrences(Anchor(flavor, q), content'))
                    = Cardinality(Occurrences(Anchor(flavor, q), content))

OrderIndependent == todo = {} => content = ModifyText(flavor, original)

\* C10: the four v1 rules do not interfere: applying one rule neither adds
\* nor removes an occurrence of another rule's anchor, and whatever the order
\* in which the four are applied the final text is the one the program's
\* order gives.
C10_RulesCommute == [][NoInterferenceStep]_vars /\ []OrderIndependent

C10_Witness ==
    /\ pc = "order"
    /\ todo = {}
    /\ \A r \in Rules : StrIn(Anchor(flavor, r), original)
    /\ \A r \in Rules : StrIn(Replacement(flavor, r), content)

(***************************************************************************)
(* Properties of the resolver.                                             *)
(***************************************************************************)
Terminal == {"done", "failed", "exited"}

\* the hard-coded default of each field, as the precedence rule names them
FieldDefault(f) ==
    CASE f = "clusters" -> 256
      [] f = "outlierThreshold" -> "0.7"
      [] f = "linkageMethod" -> "weighted"
      [] f = "useRelevanceWeighting" -> TRUE
      [] f = "useLLMNaming" -> TRUE

\* what settings.json sets for field f, None if it does not
BaseSets(f) ==
    LET st == settingsFile.value[1]
    IN  IF st.topic_clustering = None THEN None ELSE st.topic_clustering[1][f]

\* what the requested variant sets for field f, None if it does not
VariantSets(f) ==
    IF argsVariant = None THEN None
    ELSE catalog.value[1][argsVariant[1]].settings[f]

\* C3: each of the five fields is resolved on its own: the variant's value
\* if a variant is requested and sets the field, otherwise the base value if
\* base sets it, otherwise the default (256, 0.7, "weighted", true, true).
C3_PerFieldPrecedence ==
    rpc = "done" =>
        /\ effective # None
        /\ \A f \in Fields :
              effective[1][f] =
                  IF VariantSets(f) # None THEN VariantSets(f)[1]
                  ELSE IF BaseSets(f) # None THEN BaseSets(f)[1]
                  ELSE FieldDefault(f)

C3_Witness ==
    /\ rpc = "done"
    /\ argsVariant = Some("fast")
    /\ VariantSets("clusters") = None
    /\ BaseSets("clusters") = Some(100)
    /\ VariantSets("outlierThreshold") = Some("0.9")
    /\ BaseSets("outlierThreshold") = Some("0.5")
    /\ VariantSets("linkageMethod") = None
    /\ BaseSets("linkageMethod") = None
    /\ effective[1].clusters = 100
    /\ effective[1].outlierThreshold = "0.9"
    /\ effective[1].linkageMethod = "weighted"

\* C4: with no variant requested nothing is done with variants.json, and the
\* outcome is decided by settings.json alone, whatever the catalog is: exit
\* when it is missing, an error when it is malformed, otherwise every field
\* is the base value or else the default.
C4_NoVariantNoCatalogAccess ==
    (rpc # "parse_args" /\ argsVariant = None) =>
        /\ catalogOps = <<>>
        /\ variant_settings = None
        /\ rpc \in Terminal =>
              CASE settingsFile.status = "missing" ->
                      rpc = "exited" /\ effective = None /\ rerr = None
                [] settingsFile.status = "malformed" ->
                      rpc = "failed" /\ effective = None /\ rerr # None
                [] settingsFile.status = "ok" ->
                      /\ rpc = "done"
                      /\ rerr = None
                      /\ effective # None
                      /\ \A f \in Fields :
                            effective[1][f] =
                                IF BaseSets(f) # None THEN BaseSets(f)[1] ELSE FieldDefault(f)

C4_Witness ==
    /\ rpc = "done"
    /\ argsVariant = None
    /\ catalog.status = "malformed"
    /\ effective # None
    /\ effective[1].clusters = 100
    /\ effective[1].linkageMethod = "weighted"

\* C5: a requested variant that is no key of an existing, well-formed catalog
\* makes resolution fail with VariantNotFound, the message holding the
\* requested name; no effective settings are produced, from base or defaults.
C5_UnknownVariantFails ==
    (argsVariant # None /\ settingsFile.status = "ok" /\ catalog.status = "ok"
        /\ argsVariant[1] \notin DOMAIN catalog.value[1]) =>
        /\ effective = None
        /\ rpc # "override"
        /\ rpc \in Terminal =>
              /\ rpc = "failed"
              /\ rerr # None
              /\ rerr[1].kind = "VariantNotFound"
              /\ \E i \in 1..Len(rerr[1].message) : rerr[1].message[i] = argsVariant[1]

C5_Witness ==
    /\ rpc = "failed"
    /\ settingsFile.status = "ok"
    /\ argsVariant = Some("nonexistent")
    /\ catalog.status = "ok"
    /\ "fast" \in DOMAIN catalog.value[1]
    /\ BaseSets("clusters") = Some(100)
    /\ rerr[1].kind = "VariantNotFound"

\* C6: a requested variant with variants.json missing makes resolution fail
\* with CatalogMissing right after the existence test: the catalog is neither
\* read nor parsed and no effective settings are produced.
C6_MissingCatalogFails ==
    (argsVariant # None /\ settingsFile.status = "ok" /\ catalog.status = "missing") =>
        /\ effective = None
        /\ \A i \in 1..Len(catalogOps) : catalogOps[i] = "exists"
        /\ rpc \notin {"load_read", "load_parse", "load_get", "override"}
        /\ rpc \in Terminal =>
              /\ rpc = "failed"
              /\ rerr # None
              /\ rerr[1].kind = "CatalogMissing"
              /\ catalogOps = <<"exists">>

C6_Witness ==
    /\ rpc = "failed"
    /\ settingsFile.status = "ok"
    /\ argsVariant = Some("fast")
    /\ catalog.status = "missing"
    /\ BaseSets("clusters") = Some(100)
    /\ rerr[1].kind = "CatalogMissing"
    /\ catalogOps = <<"exists">>

====
